---- MODULE Spec2Model ----
(***************************************************************************)
(* Group registry of the FastMCP server (mcp.server.fastmcp.groups) and    *)
(* the groups/list protocol surface that the tests exercise.               *)
(*                                                                         *)
(* Python values are represented as follows.                               *)
(*   - An optional value is a sequence of length at most one: None is <<>> *)
(*     and a present value v is <<v>>.                                     *)
(*   - A Group object has an identity: it is an index into heap, and the   *)
(*     registry stores references (indices), as Python stores references.  *)
(*   - A dict is a sequence of key/value pairs in insertion order, which   *)
(*     is the order Python dicts iterate in.                               *)
(***************************************************************************)
EXTENDS Naturals, Sequences, FiniteSets

VARIABLES
    heap,                       \* the Group objects constructed so far
    _groups,                    \* GroupManager._groups
    _warn_on_duplicate_groups,  \* GroupManager._warn_on_duplicate_groups
    call,                       \* the most recent call and what it produced
    inserted,                   \* history: groups added and not removed since
    request_handlers,           \* Server.request_handlers[ListGroupsRequest]
    session,                    \* what the session advertised at negotiation
    listed,                     \* history: the first list_groups() result
                                \* since the last change of membership
    held,                       \* the list a caller keeps from list_groups()
    dicts,                      \* the dict objects of further GroupManagers
    managers,                   \* further GroupManager objects
    acted,                      \* which of them the last call was made on
    task,                       \* the add_group or remove_group under way
    request,                    \* the groups/list request under way
    outbox                      \* list_changed notifications not yet delivered

\* the variables that only the scenarios further down change, by scenario
stableVars == <<listed>>

snapshotVars == <<held>>

instanceVars == <<dicts, managers, acted>>

ownerVars == <<task>>

transportVars == <<request, outbox>>

scenarioVars ==
    <<stableVars, snapshotVars, instanceVars, ownerVars, transportVars>>

\* the variables of the scenarios other than the named one
exceptStable == <<snapshotVars, instanceVars, ownerVars, transportVars>>

exceptSnapshot == <<stableVars, instanceVars, ownerVars, transportVars>>

exceptInstance == <<stableVars, snapshotVars, ownerVars, transportVars>>

exceptOwner == <<stableVars, snapshotVars, instanceVars, transportVars>>

exceptTransport == <<stableVars, snapshotVars, instanceVars, ownerVars>>

vars == <<heap, _groups, _warn_on_duplicate_groups, call, inserted,
          request_handlers, session, scenarioVars>>

-----------------------------------------------------------------------------
(* Bounds and input sets *)

MaxObjs == 3

None == <<>>

Some(v) == <<v>>

GROUPS_META_KEY == "io.modelcontextprotocol/groups"

Names == {"", "a", "b"}

\* a meta mapping is a function from string keys to values; this one names
\* the group "a" as parent
ParentHint == [k \in {GROUPS_META_KEY} |-> <<"a">>]

\* the optional fields a Group is constructed with: all left at their
\* default, or a title, a description and a meta naming a parent
Fields == {[title |-> None, description |-> None, meta |-> None],
           [title |-> Some("T"), description |-> Some("D"),
            meta |-> Some(ParentHint)]}

-----------------------------------------------------------------------------
(* Group *)

\* icons and annotations are further optional fields, stored and returned
\* like title and description
Group(name, title, description, meta) ==
    [name |-> name, title |-> title, description |-> description,
     meta |-> meta]

Refs == DOMAIN heap

Deref(ref) == heap[ref]

-----------------------------------------------------------------------------
(* dict *)

DictKeys(d) == {d[i].k : i \in DOMAIN d}

DictHas(d, key) == key \in DictKeys(d)

\* d.get(key): the value stored under key, None when there is none
DictGet(d, key) ==
    IF DictHas(d, key)
    THEN Some(d[CHOOSE i \in DOMAIN d : d[i].k = key].v)
    ELSE None

\* d[key] = value: a present key keeps its position, a new key goes last
DictSet(d, key, value) ==
    IF DictHas(d, key)
    THEN [i \in DOMAIN d |->
            IF d[i].k = key THEN [k |-> key, v |-> value] ELSE d[i]]
    ELSE Append(d, [k |-> key, v |-> value])

\* del d[key]: raises KeyError when key is not in d
DictDel(d, key) ==
    [dict   |-> SelectSeq(d, LAMBDA p : p.k # key),
     raised |-> ~DictHas(d, key)]

\* list(d.values()): a new list of the values, in insertion order
DictValues(d) == [i \in DOMAIN d |-> d[i].v]

\* truth value of an Optional[Group]: a pydantic model defines neither
\* __bool__ nor __len__, so every Group is true and only None is false
Truthy(x) == x # None

-----------------------------------------------------------------------------
(* GroupManager *)

\* what a method call produces: the new _groups, the value returned (the
\* references returned: none, one, or the list), whether logger.warning
\* was called and whether an exception left the method
Outcome(groups, ret, warned, raised) ==
    [groups |-> groups, ret |-> ret, warned |-> warned, raised |-> raised]

\* add_group without the lookup of the name: the new group is stored over
\* the registered one
add_group_overwrite(objs, groups, warn, group) ==
    Outcome(DictSet(groups, objs[group].name, group), Some(group),
            FALSE, FALSE)

\* add_group that warns of a duplicate whatever the flag says
add_group_warning_always(objs, groups, warn, group) ==
    LET existing == DictGet(groups, objs[group].name)
    IN  IF Truthy(existing)
        THEN Outcome(groups, existing, TRUE, FALSE)
        ELSE Outcome(DictSet(groups, objs[group].name, group),
                     Some(group), FALSE, FALSE)

\* add_group that registers a duplicate afresh, at the end of the dict
add_group_reinserting(objs, groups, warn, group) ==
    LET name == objs[group].name
        existing == DictGet(groups, name)
    IN  IF Truthy(existing)
        THEN Outcome(DictSet(DictDel(groups, name).dict, name, existing[1]),
                     existing, warn, FALSE)
        ELSE Outcome(DictSet(groups, name, group), Some(group), FALSE, FALSE)

\* add_group that puts a new name before the registered ones
add_group_at_front(objs, groups, warn, group) ==
    LET existing == DictGet(groups, objs[group].name)
    IN  IF Truthy(existing)
        THEN Outcome(groups, existing, warn, FALSE)
        ELSE Outcome(<<[k |-> objs[group].name, v |-> group]>> \o groups,
                     Some(group), FALSE, FALSE)

\* add_group that registers a group under its title when it has one
add_group_keyed_by_title(objs, groups, warn, group) ==
    LET key == IF objs[group].title = None
               THEN objs[group].name
               ELSE objs[group].title[1]
        existing == DictGet(groups, key)
    IN  IF Truthy(existing)
        THEN Outcome(groups, existing, warn, FALSE)
        ELSE Outcome(DictSet(groups, key, group), Some(group), FALSE, FALSE)

\* objs: the Group objects at the time of the call (group is one of them)
add_group(objs, groups, warn, group) ==
    LET existing == DictGet(groups, objs[group].name)
    IN  IF Truthy(existing)
        THEN Outcome(groups, existing, warn, FALSE)
        ELSE Outcome(DictSet(groups, objs[group].name, group),
                     Some(group), FALSE, FALSE)

\* get_group by subscript, self._groups[name]: KeyError for an absent name
get_group_subscript(groups, name) ==
    Outcome(groups, DictGet(groups, name), FALSE, ~DictHas(groups, name))

get_group(groups, name) ==
    Outcome(groups, DictGet(groups, name), FALSE, FALSE)

\* remove_group without the membership test
remove_group_unguarded(groups, name) ==
    Outcome(DictDel(groups, name).dict, None, FALSE,
            DictDel(groups, name).raised)

\* remove_group that also removes the groups whose meta names the removed
\* one as parent
remove_group_cascade(groups, name) ==
    Outcome(SelectSeq(groups,
                      LAMBDA p : /\ p.k # name
                                 /\ \/ Deref(p.v).meta = None
                                    \/ \A j \in DOMAIN
                                           Deref(p.v).meta[1][GROUPS_META_KEY] :
                                           Deref(p.v).meta[1][GROUPS_META_KEY][j]
                                               # name),
            None, FALSE, FALSE)

remove_group(groups, name) ==
    IF DictHas(groups, name)
    THEN Outcome(DictDel(groups, name).dict, None, FALSE,
                 DictDel(groups, name).raised)
    ELSE Outcome(groups, None, FALSE, FALSE)

\* list_groups returning the values newest first
list_groups_reversed(groups) ==
    Outcome(groups,
            [i \in DOMAIN groups |-> groups[Len(groups) + 1 - i].v],
            FALSE, FALSE)

list_groups(groups) ==
    Outcome(groups, DictValues(groups), FALSE, FALSE)

-----------------------------------------------------------------------------
(* The record of the most recent call *)

ListGroupsResult(groups, nextCursor) ==
    [groups |-> groups, nextCursor |-> nextCursor]

NoResult == ListGroupsResult(<<>>, None)

\* after: the operation of the call just before this one when that call
\* was an add or a remove of the same name, "-" otherwise
Call(op, group, name, out, after) ==
    [op |-> op, group |-> group, name |-> name, ret |-> out.ret,
     warned |-> out.warned, raised |-> out.raised, after |-> after,
     handler |-> "none", cursor |-> None, result |-> NoResult]

After(name) ==
    IF call.name = Some(name) /\ call.op \in {"add", "remove"}
    THEN call.op
    ELSE "-"

NoCall == Call("-", None, None, Outcome(<<>>, None, FALSE, FALSE), "-")

-----------------------------------------------------------------------------
(* History: the groups whose add found their name absent and whose name   *)
(* was not removed since, oldest first, each with the name and the meta it *)
(* had when it was added                                                   *)

InsertedNames == {inserted[i].name : i \in DOMAIN inserted}

InsertedAdd(group) ==
    IF Deref(group).name \in InsertedNames
    THEN inserted
    ELSE Append(inserted, [group |-> group, name |-> Deref(group).name,
                           meta |-> Deref(group).meta])

InsertedRemove(name) == SelectSeq(inserted, LAMBDA e : e.name # name)

InsertedGroups == [i \in DOMAIN inserted |-> inserted[i].group]

InsertedEntry(name) ==
    inserted[CHOOSE i \in DOMAIN inserted : inserted[i].name = name]

-----------------------------------------------------------------------------
(* Actions *)

\* the session before initialization: nothing advertised yet
NoSession ==
    [state |-> "UNINITIALIZED", groups |-> None, registered |-> FALSE,
     given |-> None]

\* no call is under way: pc is the statement the call is at, existing the
\* local variable of add_group, entry the _groups the call found
NoTask ==
    [pc |-> "-", group |-> None, name |-> "", existing |-> None,
     entry |-> <<>>]

\* no request is under way: state is where the request is, handled
\* whether its handler has run, result the groups the handler returned,
\* since the registry methods called since the peer cancelled it
NoRequest ==
    [state |-> "-", handled |-> FALSE, result |-> <<>>, since |-> {}]

\* nothing was sent: pending counts the notifications sent and neither
\* delivered nor lost, sent says that one was sent at some time, lost that
\* a delivery failed, overtaken that an add_group or remove_group changed
\* the registry while one was pending
NoNotification ==
    [pending |-> 0, sent |-> FALSE, lost |-> FALSE, overtaken |-> FALSE]

\* no scenario has begun
NoScenario ==
    /\ listed = None
    /\ held = None
    /\ dicts = <<>>
    /\ managers = <<>>
    /\ acted = 0
    /\ task = NoTask
    /\ request = NoRequest
    /\ outbox = NoNotification

Init ==
    /\ heap = <<>>
    /\ _groups = <<>>
    /\ _warn_on_duplicate_groups \in BOOLEAN
    /\ call = NoCall
    /\ inserted = <<>>
    /\ request_handlers = "none"
    /\ session = NoSession
    /\ NoScenario

serverVars == <<request_handlers, session>>

\* Group(name=..., title=..., description=..., meta=...)
NewGroup(name, title, description, meta) ==
    /\ Len(heap) < MaxObjs
    /\ heap' = Append(heap, Group(name, title, description, meta))
    /\ UNCHANGED <<_groups, _warn_on_duplicate_groups, call, inserted,
                   serverVars>>

\* an add that clears the parent hint of a group whose parent "a" is not
\* registered
AddGroupDroppingHint(group) ==
    LET out == add_group(heap, _groups, _warn_on_duplicate_groups, group)
        name == Deref(group).name
    IN  /\ _groups' = out.groups
        /\ call' = Call("add", Some(group), Some(name), out, After(name))
        /\ inserted' = InsertedAdd(group)
        /\ heap' = IF DictHas(_groups, "a")
                   THEN heap
                   ELSE [heap EXCEPT ![group].meta = None]
        /\ UNCHANGED <<_warn_on_duplicate_groups, serverVars>>

\* an add under a lock that the list handler takes and that the delivery
\* of the response releases
AddGroupUnderLock(group) ==
    LET out == add_group(heap, _groups, _warn_on_duplicate_groups, group)
        name == Deref(group).name
    IN  /\ ~(request.handled /\ request.state \in {"sending", "cancelled"})
        /\ _groups' = out.groups
        /\ call' = Call("add", Some(group), Some(name), out, After(name))
        /\ inserted' = InsertedAdd(group)
        /\ UNCHANGED <<heap, _warn_on_duplicate_groups, serverVars>>

AddGroup(group) ==
    LET out == add_group(heap, _groups, _warn_on_duplicate_groups, group)
        name == Deref(group).name
    IN  /\ _groups' = out.groups
        /\ call' = Call("add", Some(group), Some(name), out, After(name))
        /\ inserted' = InsertedAdd(group)
        /\ UNCHANGED <<heap, _warn_on_duplicate_groups, serverVars>>

GetGroup(name) ==
    LET out == get_group(_groups, name)
    IN  /\ _groups' = out.groups
        /\ call' = Call("get", None, Some(name), out, After(name))
        /\ UNCHANGED <<heap, _warn_on_duplicate_groups, inserted, serverVars>>

\* a remove that waits until every list_changed notification is delivered
RemoveGroupAfterDelivery(name) ==
    LET out == remove_group(_groups, name)
    IN  /\ outbox.pending = 0
        /\ _groups' = out.groups
        /\ call' = Call("remove", None, Some(name), out, After(name))
        /\ inserted' = InsertedRemove(name)
        /\ UNCHANGED <<heap, _warn_on_duplicate_groups, serverVars>>

RemoveGroup(name) ==
    LET out == remove_group(_groups, name)
    IN  /\ _groups' = out.groups
        /\ call' = Call("remove", None, Some(name), out, After(name))
        /\ inserted' = InsertedRemove(name)
        /\ UNCHANGED <<heap, _warn_on_duplicate_groups, serverVars>>

ListGroups ==
    LET out == list_groups(_groups)
    IN  /\ _groups' = out.groups
        /\ call' = Call("list", None, None, out, "-")
        /\ UNCHANGED <<heap, _warn_on_duplicate_groups, inserted, serverVars>>

\* a step outside the scenarios further down
Plain(Step) == Step /\ UNCHANGED scenarioVars

Next ==
    \/ Plain(\E name \in Names, f \in Fields :
                NewGroup(name, f.title, f.description, f.meta))
    \/ Plain(\E group \in Refs : AddGroup(group))
    \/ Plain(\E name \in Names : GetGroup(name))
    \/ Plain(\E name \in Names : RemoveGroup(name))
    \/ Plain(ListGroups)

Spec == Init /\ [][Next]_vars

-----------------------------------------------------------------------------
(* The protocol layer: the low-level Server, FastMCP and the session.      *)
(* request_handlers is the handler registered for ListGroupsRequest:       *)
(* "none", "default" (FastMCP.list_groups), or one of the two handlers of  *)
(* the client tests, "simple" (no parameter, returns a list) and "echo"    *)
(* (takes the request, returns a ListGroupsResult).                        *)

MaxServerGroups == 2

Cursors == {None, Some("page2"), Some("")}

\* mcp.types.Group as the peer receives it
MCPGroup(name, title, description, meta) ==
    [name |-> name, title |-> title, description |-> description,
     meta |-> meta]

\* str(cursor) inside an f-string
Str(cursor) == IF cursor = None THEN "None" ELSE cursor[1]

\* FastMCP.list_groups: the registry's list converted to protocol groups
FastMCP_list_groups ==
    LET groups == list_groups(_groups).ret
    IN  [i \in DOMAIN groups |->
            MCPGroup(Deref(groups[i]).name, Deref(groups[i]).title,
                     Deref(groups[i]).description, Deref(groups[i]).meta)]

\* handle_list_groups of test_list_groups_returns_list_style
handle_list_groups_simple ==
    <<MCPGroup("simple1", Some("Simple 1"), None, None),
      MCPGroup("simple2", Some("Simple 2"), None, None)>>

\* handle_list_groups of test_list_groups_with_lowlevel_server
handle_list_groups_echo(cursor) ==
    ListGroupsResult(
        <<MCPGroup("test_group", None, Some("cursor=" \o Str(cursor)), None)>>,
        None)

\* whether the registered function takes the request
TakesRequest(handler) == handler = "echo"

\* a wrapper that takes any cursor for the end of the listing
handle_list_groups_paging(handler, cursor) ==
    IF TakesRequest(handler)
    THEN handle_list_groups_echo(cursor)
    ELSE ListGroupsResult(IF cursor # None
                          THEN <<>>
                          ELSE IF handler = "default"
                               THEN FastMCP_list_groups
                               ELSE handle_list_groups_simple,
                          None)

\* a wrapper that calls every function without the cursor of the request
handle_list_groups_dropping_cursor(handler, cursor) ==
    IF TakesRequest(handler)
    THEN handle_list_groups_echo(None)
    ELSE ListGroupsResult(IF handler = "default"
                          THEN FastMCP_list_groups
                          ELSE handle_list_groups_simple,
                          None)

\* the handler the list_groups decorator registers: a function that takes
\* the request gets it and its ListGroupsResult is the answer; a function
\* without parameter is called without it and its list is wrapped
handle_list_groups(handler, cursor) ==
    IF TakesRequest(handler)
    THEN handle_list_groups_echo(cursor)
    ELSE ListGroupsResult(IF handler = "default"
                          THEN FastMCP_list_groups
                          ELSE handle_list_groups_simple,
                          None)

\* NotificationOptions(groups_changed=...): False when not given
NotificationOptions(given) ==
    [groups_changed |-> IF given = None THEN FALSE ELSE given[1]]

\* a capability that is always present and false without handler
get_capabilities_flag_only(handlers, notification_options) ==
    Some([list_changed |-> /\ handlers # "none"
                           /\ notification_options.groups_changed])

\* Server.get_capabilities: the groups capability
get_capabilities(handlers, notification_options) ==
    IF handlers # "none"
    THEN Some([list_changed |-> notification_options.groups_changed])
    ELSE None

InitServer ==
    /\ heap = <<>>
    /\ _groups = <<>>
    /\ _warn_on_duplicate_groups \in BOOLEAN
    /\ call = NoCall
    /\ inserted = <<>>
    /\ request_handlers \in {"none", "default"}
    /\ session = NoSession
    /\ NoScenario

registryVars == <<heap, _groups, _warn_on_duplicate_groups, inserted>>

\* a registration that advertises the capability again
RegisterHandlerReadvertising(handler) ==
    /\ request_handlers' = handler
    /\ session' = IF session.state = "NEGOTIATED"
                  THEN [session EXCEPT
                          !.groups = Some([list_changed |-> FALSE])]
                  ELSE session
    /\ UNCHANGED <<registryVars, call>>

\* @server.list_groups() on a function of one of the two shapes
RegisterHandler(handler) ==
    /\ request_handlers' = handler
    /\ UNCHANGED <<registryVars, call, session>>

\* del server.request_handlers[ListGroupsRequest]
UnregisterHandler ==
    /\ request_handlers # "none"
    /\ request_handlers' = "none"
    /\ UNCHANGED <<registryVars, call, session>>

\* the session is initialized: the capabilities are computed from the
\* handlers registered now and sent to the peer; registered and given
\* record what they were computed from
Negotiate(given) ==
    /\ session.state = "UNINITIALIZED"
    /\ session' = [state |-> "NEGOTIATED",
                   groups |-> get_capabilities(request_handlers,
                                               NotificationOptions(given)),
                   registered |-> request_handlers # "none",
                   given |-> given]
    /\ UNCHANGED <<registryVars, call, request_handlers>>

\* a groups/list request of the peer, which the session accepts once it
\* is initialized; without handler the dispatcher answers with an error
ListRequest(cursor) ==
    /\ session.state = "NEGOTIATED"
    /\ call' = [NoCall EXCEPT
                  !.op = "list_request",
                  !.handler = request_handlers,
                  !.cursor = cursor,
                  !.raised = (request_handlers = "none"),
                  !.result = IF request_handlers = "none"
                             THEN NoResult
                             ELSE handle_list_groups(request_handlers,
                                                     cursor)]
    /\ UNCHANGED <<registryVars, request_handlers, session>>

\* FastMCP.add_group(name, ...): constructs the Group and adds it
FastMCP_add_group(name, title, description, meta) ==
    /\ Len(heap) < MaxServerGroups
    /\ LET group == Len(heap) + 1
           objs == Append(heap, Group(name, title, description, meta))
           out == add_group(objs, _groups, _warn_on_duplicate_groups, group)
       IN  /\ heap' = objs
           /\ _groups' = out.groups
           /\ call' = Call("add", Some(group), Some(name), out, After(name))
           /\ inserted' = IF name \in InsertedNames
                          THEN inserted
                          ELSE Append(inserted, [group |-> group,
                                                 name |-> name,
                                                 meta |-> meta])
    /\ UNCHANGED <<_warn_on_duplicate_groups, serverVars>>

NextServer ==
    \/ Plain(\E name \in Names, f \in Fields :
                FastMCP_add_group(name, f.title, f.description, f.meta))
    \/ Plain(\E name \in Names : RemoveGroup(name))
    \/ Plain(\E handler \in {"simple", "echo"} : RegisterHandler(handler))
    \/ Plain(UnregisterHandler)
    \/ Plain(\E given \in {None, Some(TRUE)} : Negotiate(given))
    \/ Plain(\E cursor \in Cursors : ListRequest(cursor))

SpecServer == InitServer /\ [][NextServer]_vars

-----------------------------------------------------------------------------
(* Properties of the registry *)

\* the step is a call of op (a call that repeats the one before it with
\* the same outcome leaves every variable as it is)
Called(op) == call' # call /\ call'.op = op

\* C1: an add of a name right after an add of that name leaves the
\* registry and every Group as they were, returns the group the first add
\* returned, which is the one stored under the name, and does not raise
C1_IdempotentAdd ==
    [][(Called("add") /\ call'.after = "add")
          => /\ _groups' = _groups
             /\ heap' = heap
             /\ call'.ret = call.ret
             /\ call'.ret = Some(InsertedEntry(call'.name[1]).group)
             /\ ~call'.raised]_vars

\* C1 witness: the second add was given another Group object of the same
\* name with other fields, and returned the first
C1_Witness ==
    /\ call.op = "add"
    /\ call.after = "add"
    /\ call.ret # call.group
    /\ Deref(call.ret[1]).name = Deref(call.group[1]).name
    /\ Deref(call.ret[1]).meta # Deref(call.group[1]).meta

\* C2: list returns the groups added and not removed since, in the order
\* of their adds, and no name twice
C2_ListExactMembership ==
    call.op = "list"
        => /\ call.ret = InsertedGroups
           /\ \A i, j \in DOMAIN call.ret :
                 Deref(call.ret[i]).name = Deref(call.ret[j]).name => i = j

\* C2 witness: a list of two groups, the later constructed one added
\* first, while a third group is not listed
C2_Witness ==
    /\ call.op = "list"
    /\ Len(call.ret) = 2
    /\ call.ret[1] > call.ret[2]
    /\ Len(heap) = 3
    /\ \A g \in Refs : \E i \in DOMAIN call.ret :
          Deref(g).name = Deref(call.ret[i]).name

\* C3: remove never raises and leaves the name absent; a remove right
\* after a remove of the same name leaves the registry as it was
C3_RemoveIdempotentTotal ==
    [][Called("remove")
          => /\ ~call'.raised
             /\ ~DictHas(_groups', call'.name[1])
             /\ call'.after = "remove" => _groups' = _groups]_vars

\* C3 witness: a second remove of a name, other groups being registered
C3_Witness ==
    /\ call.op = "remove"
    /\ call.after = "remove"
    /\ ~call.raised
    /\ _groups # <<>>

\* C4: get does not raise, leaves the registry and the groups as they
\* were, and returns the group registered under exactly that name, None
\* when there is none
C4_GetExactOrNone ==
    [][Called("get")
          => /\ ~call'.raised
             /\ _groups' = _groups
             /\ heap' = heap
             /\ call'.ret = IF call'.name[1] \in InsertedNames
                            THEN Some(InsertedEntry(call'.name[1]).group)
                            ELSE None]_vars

\* C4 witness: get of a name right after its removal returns None while
\* another group is registered
C4_Witness ==
    /\ call.op = "get"
    /\ call.after = "remove"
    /\ call.ret = None
    /\ ~call.raised
    /\ _groups # <<>>

\* C5: while a group stays registered, get returns it with the meta it was
\* added with, and so does list
C5_MetaRoundTrip ==
    /\ (call.op = "get" /\ call.name[1] \in InsertedNames)
          => /\ call.ret # None
             /\ Deref(call.ret[1]).meta = InsertedEntry(call.name[1]).meta
    /\ call.op = "list"
          => /\ Len(call.ret) = Len(inserted)
             /\ \A i \in DOMAIN inserted :
                   Deref(call.ret[i]).meta = inserted[i].meta

\* C5 witness: get returns a group whose meta names the parent "a" while
\* no group "a" is registered
C5_Witness ==
    /\ call.op = "get"
    /\ call.ret # None
    /\ Deref(call.ret[1]).meta = Some(ParentHint)
    /\ ~DictHas(_groups, "a")

\* C6: remove takes the pair of that name out of the registry and nothing
\* else: the other pairs stay, in their order, and no Group changes
C6_NoCascade ==
    [][Called("remove")
          => /\ heap' = heap
             /\ _groups' = SelectSeq(_groups,
                                      LAMBDA p : p.k # call'.name[1])]_vars

\* C6 witness: the parent "a" was added and then removed, and a group
\* whose meta names "a" is still registered, with another one
C6_Witness ==
    /\ call.op = "remove"
    /\ call.name = Some("a")
    /\ call.after = "add"
    /\ Len(_groups) = 2
    /\ \E i \in DOMAIN _groups :
          Deref(_groups[i].v).meta = Some(ParentHint)

\* C15: a call warns exactly when it is an add of a registered name to a
\* registry constructed with the flag on; with the flag the other way the
\* same add leaves the same registry and returns the same group
C15_WarningOnlyOnDuplicateAdd ==
    [][\A op \in {"add", "get", "remove", "list"} :
          Called(op)
              => /\ call'.warned
                       = /\ op = "add"
                         /\ _warn_on_duplicate_groups
                         /\ call'.name[1] \in InsertedNames
                 /\ op = "add"
                       => LET other == add_group(heap, _groups,
                                                 ~_warn_on_duplicate_groups,
                                                 call'.group[1])
                          IN  /\ other.groups = _groups'
                              /\ other.ret = call'.ret]_vars

\* C15 witness: an add of a registered name has warned
C15_Witness ==
    /\ call.op = "add"
    /\ call.warned
    /\ call.ret # call.group
    /\ _warn_on_duplicate_groups

\* C20 as stated: no group is registered under the empty name
C20_NoEmptyName ==
    /\ ~DictHas(_groups, "")
    /\ \A i \in DOMAIN _groups : Deref(_groups[i].v).name # ""

-----------------------------------------------------------------------------
(* Properties of the protocol layer *)

\* C7: the capability advertised at negotiation is present exactly when a
\* list handler was registered then, and its list_changed is the
\* groups_changed option given, False when none was given
C7_CapabilityIffHandler ==
    session.state = "NEGOTIATED"
        => /\ (session.groups # None) <=> session.registered
           /\ session.groups # None
                 => session.groups[1].list_changed
                        = (session.given # None /\ session.given[1])

\* C7 witness: negotiated with a handler and groups_changed=True
C7_Witness ==
    /\ session.state = "NEGOTIATED"
    /\ session.registered
    /\ session.given = Some(TRUE)
    /\ session.groups = Some([list_changed |-> TRUE])

\* C8: the session only moves from UNINITIALIZED to NEGOTIATED, and what
\* it advertised then never changes
C8_CapabilityFixed ==
    [][/\ session.state = "NEGOTIATED" => session' = session
       /\ session' # session
             => /\ session.state = "UNINITIALIZED"
                /\ session'.state = "NEGOTIATED"]_vars

\* C8 witness: negotiated without handler; a handler was registered and a
\* group added afterwards, and the capability is still absent
C8_Witness ==
    /\ session.state = "NEGOTIATED"
    /\ ~session.registered
    /\ session.groups = None
    /\ request_handlers # "none"
    /\ _groups # <<>>

\* the protocol groups of the groups added and not removed since
InsertedMCPGroups ==
    [i \in DOMAIN inserted |->
        MCPGroup(inserted[i].name, Deref(inserted[i].group).title,
                 Deref(inserted[i].group).description, inserted[i].meta)]

\* C9: with the default handler a request without cursor is answered with
\* all groups registered at that time, in registry order, and no nextCursor
C9_DefaultListing ==
    (call.op = "list_request" /\ call.handler = "default"
        /\ call.cursor = None)
        => /\ ~call.raised
           /\ call.result = ListGroupsResult(InsertedMCPGroups, None)

\* C9 witness: the default listing of two registered groups
C9_Witness ==
    /\ call.op = "list_request"
    /\ call.handler = "default"
    /\ call.cursor = None
    /\ Len(call.result.groups) = 2
    /\ call.result.nextCursor = None

\* C10 as stated: whatever cursor the peer sends, the answer is that of a
\* request without cursor
C10_AnyCursorRestarts ==
    (call.op = "list_request" /\ call.handler # "none")
        => /\ ~call.raised
           /\ call.result = handle_list_groups(call.handler, None)

\* C10 amended: with the default handler or a handler without parameter,
\* whatever cursor the peer sends, the request is no error and the answer
\* is that of a request without cursor
C10_CursorIgnoredByListHandlers ==
    (call.op = "list_request" /\ call.handler \in {"default", "simple"})
        => /\ ~call.raised
           /\ call.result = handle_list_groups(call.handler, None)

\* C10 witness: the default handler answered a request with an unknown
\* cursor with both registered groups
C10_Witness ==
    /\ call.op = "list_request"
    /\ call.handler = "default"
    /\ call.cursor = Some("page2")
    /\ Len(call.result.groups) = 2

\* C14: a handler without parameter answers every request, whatever its
\* cursor, with its whole list and no nextCursor; a handler that takes the
\* request sees the cursor the peer sent, None when none was sent, and its
\* result is the answer
C14_BothShapesNormalized ==
    call.op = "list_request"
        => /\ call.handler = "simple"
                 => call.result
                        = ListGroupsResult(handle_list_groups_simple, None)
           /\ call.handler = "echo"
                 => /\ Len(call.result.groups) = 1
                    /\ call.result.groups[1].name = "test_group"
                    /\ call.result.groups[1].description
                          = Some(IF call.cursor = None THEN "cursor=None"
                                 ELSE IF call.cursor = Some("page2")
                                      THEN "cursor=page2"
                                      ELSE "cursor=")
                    /\ call.result.nextCursor = None

\* C14 witness: the handler that takes the request was sent "page2"
C14_Witness ==
    /\ call.op = "list_request"
    /\ call.handler = "echo"
    /\ call.cursor = Some("page2")
    /\ call.result.groups[1].description = Some("cursor=page2")

-----------------------------------------------------------------------------
(* Listing twice.  listed keeps the result of the first list_groups()      *)
(* since membership last changed, and the calls made since that list;      *)
(* membership changes when inserted does: at an add of a name that is not  *)
(* registered and at a remove of one that is.                              *)

MaxStableObjs == 2

Listed(ret, since) == Some([ret |-> ret, since |-> since])

Stable(Step) ==
    /\ Step
    /\ UNCHANGED exceptStable
    /\ Len(heap') <= MaxStableObjs
    /\ listed' = IF inserted' # inserted
                  THEN None
                  ELSE IF call' = call
                  THEN listed
                  ELSE IF listed = None
                  THEN IF call'.op = "list"
                       THEN Listed(call'.ret, {})
                       ELSE None
                  ELSE Listed(listed[1].ret,
                              listed[1].since \cup {call'.op})

NextStable ==
    \/ Stable(\E name \in Names, f \in Fields :
                 NewGroup(name, f.title, f.description, f.meta))
    \/ Stable(\E group \in Refs : AddGroup(group))
    \/ Stable(\E name \in Names : GetGroup(name))
    \/ Stable(\E name \in Names : RemoveGroup(name))
    \/ Stable(ListGroups)

SpecStable == Init /\ [][NextStable]_vars

\* C17: a list_groups() returns what the first list_groups() since the last
\* change of membership returned, whatever gets, adds of registered names
\* and removes of unregistered names were called in between
C17_ListStable ==
    [][(Called("list") /\ listed # None)
          => call'.ret = listed[1].ret]_vars

\* C17 witness: a second list after a get, an add of a registered name and
\* a remove of an unregistered name returned the two groups the first did
C17_Witness ==
    /\ listed # None
    /\ call.op = "list"
    /\ call.ret = listed[1].ret
    /\ listed[1].since = {"get", "add", "remove", "list"}
    /\ Len(_groups) = 2

-----------------------------------------------------------------------------
(* The caller keeps the Group it registered.  Group is a pydantic model    *)
(* that is not frozen, so an attribute of it can be assigned, and the      *)
(* registry holds the very object the caller holds.                        *)

\* group.<name> = value
SetAttr(group, name, value) ==
    /\ heap' = [heap EXCEPT ![group][name] = value]
    /\ UNCHANGED <<_groups, _warn_on_duplicate_groups, call, inserted,
                   serverVars>>

MaxAliasObjs == 2

Aliased(Step) == Plain(Step) /\ Len(heap') <= MaxAliasObjs

NextAlias ==
    \/ Aliased(\E name \in Names, f \in Fields :
                  NewGroup(name, f.title, f.description, f.meta))
    \/ Aliased(\E group \in Refs : AddGroup(group))
    \/ Aliased(\E name \in Names : GetGroup(name))
    \/ Aliased(\E name \in Names : RemoveGroup(name))
    \/ Aliased(ListGroups)
    \/ Aliased(\E group \in Refs, f \in Fields :
                  SetAttr(group, "meta", f.meta))

SpecAlias == Init /\ [][NextAlias]_vars

\* C19 as stated: a registered group has the name and the meta it had when
\* it was added, whatever the registry was asked and whatever the caller
\* assigned to the meta of the Group objects it holds
C19_RecordsImmutable ==
    \A i \in DOMAIN inserted :
        /\ DictGet(_groups, inserted[i].name) = Some(inserted[i].group)
        /\ Deref(inserted[i].group).name = inserted[i].name
        /\ Deref(inserted[i].group).meta = inserted[i].meta

-----------------------------------------------------------------------------
(* The caller keeps the list that list_groups() returned, and edits it.    *)
(* held is None or the object kept: own says that the object is a list of  *)
(* its own, whose items are items; an object that is not its own is the    *)
(* view of the dict, which shows what the dict holds when it is read and   *)
(* has no method that edits it.                                            *)

MaxSnapshotObjs == 2

MaxHeldLen == 3

\* a list_groups that returns self._groups.values() as it is
list_groups_object_view(groups) == [own |-> FALSE, items |-> <<>>]

\* the object list_groups returns: list(...) builds a new list
list_groups_object(groups) ==
    [own |-> TRUE, items |-> list_groups(groups).ret]

\* the groups in the held object when it is read now
Items(object) ==
    IF object.own THEN object.items ELSE DictValues(_groups)

Reversed(items) == [i \in DOMAIN items |-> items[Len(items) + 1 - i]]

\* a registry call of a caller that holds a list
Holding(Step) ==
    /\ Step
    /\ Len(heap') <= MaxSnapshotObjs
    /\ UNCHANGED <<held, exceptSnapshot>>

\* held = manager.list_groups()
KeepList ==
    /\ ListGroups
    /\ held' = Some([object |-> list_groups_object(_groups),
                     edited |-> FALSE])
    /\ UNCHANGED exceptSnapshot

\* the caller replaces the items of the list it holds
EditHeld(items) ==
    /\ held # None
    /\ held[1].object.own
    /\ held' = Some([object |-> [own |-> TRUE, items |-> items],
                     edited |-> TRUE])
    /\ UNCHANGED <<heap, _groups, _warn_on_duplicate_groups, call, inserted,
                   serverVars, exceptSnapshot>>

\* held.append(group)
HeldAppend(group) ==
    /\ held # None
    /\ Len(held[1].object.items) < MaxHeldLen
    /\ EditHeld(Append(held[1].object.items, group))

\* del held[0]
HeldDelete ==
    /\ held # None
    /\ held[1].object.items # <<>>
    /\ EditHeld(Tail(held[1].object.items))

\* held.reverse()
HeldReverse ==
    /\ held # None
    /\ EditHeld(Reversed(held[1].object.items))

NextSnapshot ==
    \/ Holding(\E name \in {"a", "b"} : NewGroup(name, None, None, None))
    \/ Holding(\E group \in Refs : AddGroup(group))
    \/ Holding(\E name \in {"a", "b"} : GetGroup(name))
    \/ Holding(\E name \in {"a", "b"} : RemoveGroup(name))
    \/ Holding(ListGroups)
    \/ KeepList
    \/ \E group \in Refs : HeldAppend(group)
    \/ HeldDelete
    \/ HeldReverse

SpecSnapshot == Init /\ [][NextSnapshot]_vars

\* C11: a step that is not of the caller's doing on the list it holds
\* leaves the groups in that list as they were, and a step in which the
\* caller edits the list leaves what list_groups and get_group return as
\* it was
C11_ListIsSnapshot ==
    [][/\ (held # None /\ held' = held)
            => Items(held[1].object)' = Items(held[1].object)
       /\ (held # None /\ held' # held /\ held'[1].edited)
            => /\ list_groups(_groups').ret = list_groups(_groups).ret
               /\ \A name \in Names :
                      get_group(_groups', name).ret
                          = get_group(_groups, name).ret]_vars

\* C11 witness: the caller has edited the list it holds, which has two
\* groups, the first of them not registered, and list_groups has returned
\* the one group that is registered
C11_Witness ==
    /\ held # None
    /\ held[1].edited
    /\ Len(Items(held[1].object)) = 2
    /\ DictValues(_groups) = <<Items(held[1].object)[2]>>
    /\ Items(held[1].object)[1] # Items(held[1].object)[2]
    /\ call.op = "list"
    /\ call.ret = DictValues(_groups)

-----------------------------------------------------------------------------
(* Several GroupManagers in one process.  A manager is an object with its  *)
(* two attributes; _groups refers to a dict object, an index into dicts.   *)

MaxManagers == 2

MaxInstanceObjs == 2

\* an __init__ that binds self._groups to one dict all managers share
GroupManager_init_shared(objects, warn_on_duplicate_groups) ==
    [dicts |-> IF objects = <<>> THEN <<<<>>>> ELSE objects,
     self |-> [_groups |-> 1,
               _warn_on_duplicate_groups |-> warn_on_duplicate_groups]]

\* GroupManager.__init__: {} is a new dict object
GroupManager_init(objects, warn_on_duplicate_groups) ==
    [dicts |-> Append(objects, <<>>),
     self |-> [_groups |-> Len(objects) + 1,
               _warn_on_duplicate_groups |-> warn_on_duplicate_groups]]

\* the dict manager m refers to
GroupsOf(m) == dicts[managers[m]._groups]

instanceFrame ==
    <<_groups, _warn_on_duplicate_groups, call, inserted, serverVars,
      exceptInstance>>

\* GroupManager(warn_on_duplicate_groups=...)
NewManager(warn_on_duplicate_groups) ==
    LET made == GroupManager_init(dicts, warn_on_duplicate_groups)
    IN  /\ Len(managers) < MaxManagers
        /\ dicts' = made.dicts
        /\ managers' = Append(managers, made.self)
        /\ acted' = 0
        /\ UNCHANGED <<heap, instanceFrame>>

\* a Group for the managers
InstanceGroup(name) ==
    /\ Len(heap) < MaxInstanceObjs
    /\ NewGroup(name, None, None, None)
    /\ acted' = 0
    /\ UNCHANGED <<dicts, managers, exceptInstance>>

\* a method call on manager m that produces out
InstanceCall(m, out) ==
    /\ dicts' = [dicts EXCEPT ![managers[m]._groups] = out.groups]
    /\ acted' = m
    /\ UNCHANGED <<heap, managers, instanceFrame>>

\* managers[m].add_group(group)
InstanceAdd(m, group) ==
    InstanceCall(m, add_group(heap, GroupsOf(m),
                              managers[m]._warn_on_duplicate_groups, group))

\* managers[m].get_group(name)
InstanceGet(m, name) == InstanceCall(m, get_group(GroupsOf(m), name))

\* managers[m].remove_group(name)
InstanceRemove(m, name) == InstanceCall(m, remove_group(GroupsOf(m), name))

\* managers[m].list_groups()
InstanceList(m) == InstanceCall(m, list_groups(GroupsOf(m)))

NextInstances ==
    \/ NewManager(TRUE)
    \/ \E name \in {"a", "b"} : InstanceGroup(name)
    \/ \E m \in DOMAIN managers, group \in Refs : InstanceAdd(m, group)
    \/ \E m \in DOMAIN managers, name \in {"a", "b"} : InstanceGet(m, name)
    \/ \E m \in DOMAIN managers, name \in {"a", "b"} :
          InstanceRemove(m, name)
    \/ \E m \in DOMAIN managers : InstanceList(m)

SpecInstances == Init /\ [][NextInstances]_vars

\* C18: a manager just constructed lists no group and gets none, and a call
\* on one manager leaves what every other manager lists and gets as it was
C18_InstancesIsolated ==
    [][/\ Len(managers') > Len(managers)
            => LET new == dicts'[managers'[Len(managers')]._groups]
               IN  /\ list_groups(new).ret = <<>>
                   /\ \A name \in Names : get_group(new, name).ret = None
       /\ \A n \in DOMAIN managers :
              n # acted'
                  => LET before == dicts[managers[n]._groups]
                         after == dicts'[managers'[n]._groups]
                     IN  /\ list_groups(after).ret = list_groups(before).ret
                         /\ \A name \in Names :
                                get_group(after, name).ret
                                    = get_group(before, name).ret]_vars

\* C18 witness: the second of two managers was just called, it has the
\* group "b" alone and the first has the group "a" alone
C18_Witness ==
    /\ Len(managers) = 2
    /\ acted = 2
    /\ DictKeys(GroupsOf(1)) = {"a"}
    /\ DictKeys(GroupsOf(2)) = {"b"}

-----------------------------------------------------------------------------
(* Calls that interleave.  The owner's add_group or remove_group runs one  *)
(* statement at a step, and list_groups and get_group of other tasks run   *)
(* between its statements.  list(self._groups.values()), a dict lookup, a  *)
(* dict store and a del are each one step of the interpreter.              *)

MaxConcurrentObjs == 2

\* a call of another task, between two statements of the owner
Concurrent(Step) ==
    /\ Step
    /\ Len(heap') <= MaxConcurrentObjs
    /\ UNCHANGED <<task, exceptOwner>>

\* a statement of the owner that leaves the dict as it is
ownerFrame == <<heap, _warn_on_duplicate_groups, serverVars, exceptOwner>>

\* add_group, line 28: existing = self._groups.get(group.name)
AddLookup(group) ==
    /\ task.pc = "-"
    /\ task' = [pc |-> "if", group |-> Some(group),
                name |-> Deref(group).name,
                existing |-> DictGet(_groups, Deref(group).name),
                entry |-> _groups]
    /\ UNCHANGED <<_groups, call, inserted, ownerFrame>>

\* add_group, lines 29 to 32: if existing: ... return existing
AddTest ==
    /\ task.pc = "if"
    /\ IF Truthy(task.existing)
       THEN /\ call' = Call("add", task.group, Some(task.name),
                            Outcome(_groups, task.existing,
                                    _warn_on_duplicate_groups, FALSE),
                            After(task.name))
            /\ task' = NoTask
       ELSE /\ task' = [task EXCEPT !.pc = "store"]
            /\ UNCHANGED call
    /\ UNCHANGED <<_groups, inserted, ownerFrame>>

\* a store in two writes: the key first, with no group, then the group
AddStoreInTwo ==
    /\ task.pc = "store"
    /\ IF DictHas(_groups, task.name)
       THEN /\ _groups' = DictSet(_groups, task.name, task.group[1])
            /\ inserted' = InsertedAdd(task.group[1])
            /\ task' = [task EXCEPT !.pc = "return"]
       ELSE /\ _groups' = DictSet(_groups, task.name, 0)
            /\ UNCHANGED <<inserted, task>>
    /\ UNCHANGED <<call, ownerFrame>>

\* add_group, line 33: self._groups[group.name] = group
AddStore ==
    /\ task.pc = "store"
    /\ _groups' = DictSet(_groups, task.name, task.group[1])
    /\ inserted' = InsertedAdd(task.group[1])
    /\ task' = [task EXCEPT !.pc = "return"]
    /\ UNCHANGED <<call, ownerFrame>>

\* add_group, line 34: return group
AddReturn ==
    /\ task.pc = "return"
    /\ call' = Call("add", task.group, Some(task.name),
                    Outcome(_groups, task.group, FALSE, FALSE),
                    After(task.name))
    /\ task' = NoTask
    /\ UNCHANGED <<_groups, inserted, ownerFrame>>

\* remove_group, line 53: if name in self._groups
RemoveTest(name) ==
    /\ task.pc = "-"
    /\ IF DictHas(_groups, name)
       THEN /\ task' = [NoTask EXCEPT !.pc = "del", !.name = name,
                                      !.entry = _groups]
            /\ UNCHANGED call
       ELSE /\ call' = Call("remove", None, Some(name),
                            Outcome(_groups, None, FALSE, FALSE),
                            After(name))
            /\ UNCHANGED task
    /\ UNCHANGED <<_groups, inserted, ownerFrame>>

\* remove_group, line 54: del self._groups[name]
RemoveDel ==
    /\ task.pc = "del"
    /\ _groups' = DictDel(_groups, task.name).dict
    /\ inserted' = InsertedRemove(task.name)
    /\ call' = Call("remove", None, Some(task.name),
                    Outcome(DictDel(_groups, task.name).dict, None, FALSE,
                            DictDel(_groups, task.name).raised),
                    After(task.name))
    /\ task' = NoTask
    /\ UNCHANGED ownerFrame

NextConcurrent ==
    \/ Concurrent(\E name \in {"a", "b"} :
                     NewGroup(name, None, None, None))
    \/ Concurrent(\E name \in {"a", "b"} : GetGroup(name))
    \/ Concurrent(ListGroups)
    \/ \E group \in Refs : AddLookup(group)
    \/ AddTest
    \/ AddStore
    \/ AddReturn
    \/ \E name \in {"a", "b"} : RemoveTest(name)
    \/ RemoveDel

SpecConcurrent == Init /\ [][NextConcurrent]_vars

\* the dict as the call under way found it, and as that call leaves it
EntryGroups == IF task.pc = "-" THEN _groups ELSE task.entry

ExitGroups ==
    IF task.pc = "-"
    THEN _groups
    ELSE IF task.group # None
         THEN add_group(heap, task.entry, _warn_on_duplicate_groups,
                        task.group[1]).groups
         ELSE remove_group(task.entry, task.name).groups

\* C12: a list_groups() that runs between the statements of an add_group
\* or a remove_group returns the groups registered either before that call
\* or after it
C12_ListSeesWholeMutations ==
    [][Called("list")
          => call'.ret \in {list_groups(EntryGroups).ret,
                            list_groups(ExitGroups).ret}]_vars

\* C12 witness: while an add_group had stored its group and not returned,
\* a list_groups() returned the groups with the new one
C12_Witness ==
    /\ task.pc = "return"
    /\ call.op = "list"
    /\ call.ret = Append(DictValues(task.entry), task.group[1])
    /\ Len(call.ret) = 2

-----------------------------------------------------------------------------
(* The list_changed notification.  The registry sends none; its caller may *)
(* send one through the session, and the transport delivers it later or    *)
(* fails to.                                                               *)

MaxNotifyObjs == 2

MaxPending == 2

\* a registry that sends a notification itself when its groups change
NotifyingOnChange(Step) ==
    /\ Step
    /\ Len(heap') <= MaxNotifyObjs
    /\ outbox' = IF _groups' # _groups /\ outbox.pending < MaxPending
                  THEN [outbox EXCEPT !.pending = outbox.pending + 1,
                                      !.sent = TRUE]
                  ELSE outbox
    /\ UNCHANGED <<request, exceptTransport>>

\* a registry call of the server while notifications may be pending
Notifying(Step) ==
    /\ Step
    /\ Len(heap') <= MaxNotifyObjs
    /\ outbox' = [outbox EXCEPT
                     !.overtaken = \/ outbox.overtaken
                                   \/ /\ outbox.pending > 0
                                      /\ _groups' # _groups]
    /\ UNCHANGED <<request, exceptTransport>>

notifyFrame ==
    <<heap, _groups, _warn_on_duplicate_groups, call, inserted, serverVars,
      request, exceptTransport>>

\* the server hands a GroupListChangedNotification to the session
SendGroupListChanged ==
    /\ outbox.pending < MaxPending
    /\ outbox' = [outbox EXCEPT !.pending = outbox.pending + 1,
                                !.sent = TRUE]
    /\ UNCHANGED notifyFrame

\* the transport delivers a pending notification to the peer
DeliverNotification ==
    /\ outbox.pending > 0
    /\ outbox' = [outbox EXCEPT !.pending = outbox.pending - 1]
    /\ UNCHANGED notifyFrame

\* the delivery of a pending notification fails, which is logged
FailNotification ==
    /\ outbox.pending > 0
    /\ outbox' = [outbox EXCEPT !.pending = outbox.pending - 1,
                                !.lost = TRUE]
    /\ UNCHANGED notifyFrame

NextNotify ==
    \/ Notifying(\E name \in {"a", "b"} : NewGroup(name, None, None, None))
    \/ Notifying(\E group \in Refs : AddGroup(group))
    \/ Notifying(\E name \in {"a", "b"} : GetGroup(name))
    \/ Notifying(\E name \in {"a", "b"} : RemoveGroup(name))
    \/ Notifying(ListGroups)
    \/ SendGroupListChanged
    \/ DeliverNotification
    \/ FailNotification

SpecNotify == Init /\ [][NextNotify]_vars

\* C13: add_group and remove_group can run whatever is pending, they run
\* without raising and without a change of what is pending, and a
\* delivery, late or failed, leaves the registry and the outcome of the
\* last call as they were
C13_NotificationDecoupled ==
    /\ [](/\ \A group \in Refs : ENABLED AddGroup(group)
          /\ \A name \in Names : ENABLED RemoveGroup(name))
    /\ [][((Called("add") \/ Called("remove"))
              => (/\ ~call'.raised
                  /\ outbox'.pending = outbox.pending
                  /\ outbox'.lost = outbox.lost))
           /\ ((outbox'.pending < outbox.pending)
                 => UNCHANGED <<heap, _groups, call, inserted>>)]_vars

\* C13 witness: a remove_group has returned, the registry changed while a
\* notification was pending, one is pending still and one was lost
C13_Witness ==
    /\ call.op = "remove"
    /\ outbox.overtaken
    /\ outbox.lost
    /\ outbox.pending > 0

-----------------------------------------------------------------------------
(* A groups/list request of the peer: it is received, its handler runs     *)
(* list_groups() and returns, the response waits for the transport to      *)
(* deliver it, and the peer may cancel the request until it is delivered.  *)

MaxCancelObjs == 2

\* a registry call of the server while a request may be under way
Serving(Step) ==
    /\ Step
    /\ Len(heap') <= MaxCancelObjs
    /\ request' = IF request.state = "cancelled" /\ call' # call
                   THEN [request EXCEPT
                            !.since = request.since \cup {call'.op}]
                   ELSE request
    /\ UNCHANGED <<outbox, exceptTransport>>

cancelFrame ==
    <<heap, _groups, _warn_on_duplicate_groups, call, inserted, serverVars,
      outbox, exceptTransport>>

\* the peer sends a groups/list request
ReceiveListRequest ==
    /\ request.state \in {"-", "delivered", "cancelled"}
    /\ request' = [NoRequest EXCEPT !.state = "received"]
    /\ UNCHANGED cancelFrame

\* the handler of the request runs: it calls list_groups() and returns
HandleListRequest ==
    /\ request.state = "received"
    /\ ListGroups
    /\ request' = [request EXCEPT !.state = "sending", !.handled = TRUE,
                                  !.result = list_groups(_groups).ret]
    /\ UNCHANGED <<outbox, exceptTransport>>

\* the transport delivers the response
DeliverResponse ==
    /\ request.state = "sending"
    /\ request' = [request EXCEPT !.state = "delivered"]
    /\ UNCHANGED cancelFrame

\* the peer cancels the request, before or after its handler has run
CancelRequest ==
    /\ request.state \in {"received", "sending"}
    /\ request' = [request EXCEPT !.state = "cancelled"]
    /\ UNCHANGED cancelFrame

NextCancel ==
    \/ Serving(\E name \in {"a", "b"} : NewGroup(name, None, None, None))
    \/ Serving(\E group \in Refs : AddGroup(group))
    \/ Serving(\E name \in {"a", "b"} : GetGroup(name))
    \/ Serving(\E name \in {"a", "b"} : RemoveGroup(name))
    \/ Serving(ListGroups)
    \/ ReceiveListRequest
    \/ HandleListRequest
    \/ DeliverResponse
    \/ CancelRequest

SpecCancel == Init /\ [][NextCancel]_vars

\* C16: while the response of a list request waits for delivery, and after
\* the peer has cancelled a request, every method of the registry can run
C16_CancellationLeavesRegistryFree ==
    request.state \in {"sending", "cancelled"}
        => /\ \A group \in Refs : ENABLED AddGroup(group)
           /\ \A name \in Names : ENABLED RemoveGroup(name)
           /\ \A name \in Names : ENABLED GetGroup(name)
           /\ ENABLED ListGroups

\* C16 witness: the peer cancelled a request whose response waited for
\* delivery, and add, remove, get and list have all returned since
C16_Witness ==
    /\ request.state = "cancelled"
    /\ request.handled
    /\ request.since = {"add", "remove", "get", "list"}

-----------------------------------------------------------------------------
(* Further properties of the notification scenario *)

\* C21: a call of a registry method, whether it changes the groups or not,
\* sends no notification, and the step that sends one is no call of a
\* registry method: it leaves the registry and the last call as they were
C21_RegistrySendsNothing ==
    [][((call' # call \/ _groups' # _groups)
          => (/\ outbox'.pending = outbox.pending
              /\ outbox'.sent = outbox.sent))
       /\ ((outbox'.pending > outbox.pending)
             => UNCHANGED <<heap, _groups, call, inserted>>)]_vars

\* C21 witness: a remove_group has removed a group just added and no
\* notification has been sent so far
C21_Witness ==
    /\ call.op = "remove"
    /\ call.after = "add"
    /\ _groups = <<>>
    /\ ~outbox.sent
    /\ outbox.pending = 0

-----------------------------------------------------------------------------
(* Further properties of the registry *)

\* C22: an add of a group right after a remove of its name registers that
\* very group, with the fields it has, after all the registered groups,
\* returns it, warns of nothing and raises nothing
C22_RemoveThenAddRegistersAfresh ==
    [][(Called("add") /\ call'.after = "remove")
          => LET r == call'.group[1]
                 n == call'.name[1]
             IN  /\ _groups' = Append(_groups, [k |-> n, v |-> r])
                 /\ heap' = heap
                 /\ call'.ret = Some(r)
                 /\ ~call'.warned
                 /\ ~call'.raised
                 /\ get_group(_groups', n).ret = Some(r)
                 /\ list_groups(_groups').ret
                       = Append(list_groups(_groups).ret, r)
                 /\ inserted' = Append(inserted,
                                       [group |-> r, name |-> n,
                                        meta |-> Deref(r).meta])]_vars

\* C22 witness: the third Group, named as the first and with another
\* meta, was added right after a remove of that name and stands after
\* the second group
C22_Witness ==
    /\ call.op = "add"
    /\ call.after = "remove"
    /\ call.group = Some(3)
    /\ Len(_groups) = 2
    /\ _groups[1].v = 2
    /\ _groups[2] = [k |-> Deref(3).name, v |-> 3]
    /\ Deref(1).name = Deref(3).name
    /\ Deref(1).meta # Deref(3).meta

\* C23: after any calls of add, get, remove and list, every key of the
\* dict is the name of the group stored under it, get_group of a name
\* returns None or a group of that name, and list_groups returns one
\* group for each key, named as the key
C23_KeysAreNames ==
    LET listing == list_groups(_groups).ret
    IN  /\ \A i \in DOMAIN _groups :
               Deref(_groups[i].v).name = _groups[i].k
        /\ \A name \in Names :
               LET got == get_group(_groups, name).ret
               IN  got # None => Deref(got[1]).name = name
        /\ {Deref(listing[i]).name : i \in DOMAIN listing}
              = DictKeys(_groups)
        /\ Len(listing) = Cardinality(DictKeys(_groups))

\* C23 witness: two groups are registered, one of them with a title, and
\* a get_group has returned one of them
C23_Witness ==
    /\ Len(_groups) = 2
    /\ \E i \in DOMAIN _groups : Deref(_groups[i].v).title # None
    /\ call.op = "get"
    /\ call.ret # None
    /\ Deref(call.ret[1]).name = call.name[1]

====
